---------------------------- MODULE Spec2Model ----------------------------
(***************************************************************************)
(* SyncFolders: one-way periodic mirroring of a source directory tree onto *)
(* a replica directory tree (src/SyncFolders.cpp).                         *)
(*                                                                         *)
(* The two filesystem trees are functions from relative paths to entries.  *)
(* The main thread is a program counter walking main()'s loop; every       *)
(* directory enumeration is stepped entry by entry.  The environment can   *)
(* deliver a termination signal and can delete the source directory.       *)
(*                                                                         *)
(* Modelling decisions that are not visible in the source text:            *)
(*  - std::filesystem gives no order for the entries of a directory.  The  *)
(*    order of the source tree is chosen once (srcOrder) because an        *)
(*    unchanged directory lists in the same order every time; the replica  *)
(*    changes, so its order is chosen at every enumeration.                *)
(*  - computeFileHash on something that is not a regular file either       *)
(*    reads nothing (digest of the empty string) or raises                 *)
(*    std::ios_base::failure, depending on the standard library; the       *)
(*    outcome is fixed per build (hashThrows).                             *)
(*  - data 0 is the empty file content.                                    *)
(***************************************************************************)
EXTENDS Integers, Sequences, FiniteSets, TLC

\* ------------------------------------------------------------------ bounds
MaxCycles == 2
MaxData == 1
MaxInterval == 2
MaxElapsed == 3

\* ------------------------------------------------------- filesystem values
Root == <<>>
Paths == {<<"a">>, <<"b">>, <<"a", "c">>}
NameOrders == {<<"a", "b", "c">>, <<"c", "b", "a">>}

Parent(p) == SubSeq(p, 1, Len(p) - 1)

None == [kind |-> "none", data |-> 0]
Dir == [kind |-> "dir", data |-> 0]
Other == [kind |-> "other", data |-> 0]
File(d) == [kind |-> "file", data |-> d]
Entries == {None, Dir, Other} \cup {File(d) : d \in 0..MaxData}

EmptyTree == [p \in Paths |-> None]

\* a tree is well formed when every present entry lies in a directory
Trees ==
  {t \in [Paths -> Entries] :
     \A p \in Paths : (t[p].kind # "none" /\ Len(p) > 1) => t[Parent(p)].kind = "dir"}

\* fs::status(root / p).type(): not_found also when a component is missing
\* or is not a directory
KindAt(rootKind, tree, p) ==
  IF p = Root THEN rootKind
  ELSE IF rootKind # "dir" THEN "none"
  ELSE tree[p].kind

Exists(rootKind, tree, p) == KindAt(rootKind, tree, p) # "none"

\* the subtree rooted at p
Under(p, q) == Len(q) >= Len(p) /\ SubSeq(q, 1, Len(p)) = p

\* fs::recursive_directory_iterator: pre-order, a directory's entries in the
\* order ord
RECURSIVE Walk(_, _, _, _)
Walk(tree, dir, ord, i) ==
  IF i > Len(ord) THEN <<>>
  ELSE LET p == Append(dir, ord[i])
       IN (IF p \in Paths /\ tree[p].kind # "none"
           THEN <<p>> \o (IF tree[p].kind = "dir" THEN Walk(tree, p, ord, 1) ELSE <<>>)
           ELSE <<>>)
          \o Walk(tree, dir, ord, i + 1)

Listing(tree, ord) == Walk(tree, Root, ord, 1)

\* a removal of the entry alone that leaves what is below it
RemoveAll_Single(tree, p) == [q \in Paths |-> IF q = p THEN None ELSE tree[q]]

\* fs::remove_all(root / p): the entry and everything below it
RemoveAll(tree, p) == [q \in Paths |-> IF Under(p, q) THEN None ELSE tree[q]]

\* countFilesAndDirectories
CountFilesAndDirectories(tree) ==
  Cardinality({p \in Paths : tree[p].kind \in {"file", "dir"}})

Line(m, p) == [msg |-> m, path |-> p]

\* -------------------------------------------------------------------- state
VARIABLES
  srcRoot,        \* kind of the source root: "dir", "none", "file"
  src,            \* source tree
  repRoot,        \* kind of the replica root
  rep,            \* replica tree
  keepRunning,    \* std::atomic<bool> keepRunning
  changesMade,    \* std::atomic<bool> changesMade
  pc,             \* position of the main thread
  todo,           \* entries the running directory iterator has yet to yield
  filesToRemove,  \* syncDelete's vector
  log,            \* lines logged since the current iteration began
  stoppedLines,   \* number of "Synchronization stopped." lines
  srcOrder,       \* listing order of the source directories
  hashThrows,     \* computeFileHash raises on a non-regular file
  cycle,          \* iterations begun
  ext,            \* the source was deleted externally
  rep0,           \* replica tree when the current iteration began
  repRoot0,       \* replica root when the current iteration began
  interval,       \* main's interval, in seconds
  elapsed,        \* end - start of the iteration that has just run
  waited          \* time the last sleep_for blocked

vars == <<srcRoot, src, repRoot, rep, keepRunning, changesMade, pc, todo,
          filesToRemove, log, stoppedLines, srcOrder, hashThrows, cycle, ext,
          rep0, repRoot0, interval, elapsed, waited>>

Terminal == {"exit0", "exit1", "crashed"}

Init ==
  /\ srcRoot \in {"dir", "none", "file"}
  /\ src \in Trees
  /\ srcRoot # "dir" => src = EmptyTree
  /\ repRoot \in {"dir", "none", "file"}
  /\ rep \in Trees
  /\ repRoot # "dir" => rep = EmptyTree
  /\ keepRunning = TRUE
  /\ changesMade = FALSE
  /\ pc = "start"
  /\ todo = <<>>
  /\ filesToRemove = <<>>
  /\ log = {}
  /\ stoppedLines = 0
  /\ srcOrder \in NameOrders
  /\ hashThrows \in BOOLEAN
  /\ cycle = 0
  /\ ext = FALSE
  /\ rep0 = rep
  /\ repRoot0 = repRoot
  /\ interval \in 1..MaxInterval
  /\ elapsed = 0
  /\ waited = 0

\* ------------------------------------------------------------------ actions

\* isSourceValid without its is_directory test
isSourceValid_ExistsOnly ==
  IF srcRoot = "none" THEN "Error: Source path does not exist." ELSE "ok"

\* isSourceValid: the error line it logs, or "ok"
isSourceValid ==
  IF srcRoot = "none" THEN "Error: Source path does not exist."
  ELSE IF srcRoot # "dir" THEN "Error: Source path is not a directory."
  ELSE "ok"

\* main, before the loop: validation, banner, signal handlers
Start ==
  /\ pc = "start"
  /\ IF isSourceValid # "ok"
     THEN /\ pc' = "exit1"
          /\ log' = log \cup {Line(isSourceValid, Root)}
     ELSE /\ pc' = "loopTop"
          /\ log' = log \cup {Line("Starting folder synchronization.", Root)}
  /\ UNCHANGED <<srcRoot, src, repRoot, rep, keepRunning, changesMade, todo,
                 filesToRemove, stoppedLines, srcOrder, hashThrows, cycle, ext,
                 rep0, repRoot0, interval, elapsed,
                 waited>>

\* a handler that ends the process itself instead of only setting the flag
signalHandler_Exits ==
  /\ pc \notin Terminal \cup {"start"}
  /\ keepRunning' = FALSE
  /\ pc' = "exit0"
  /\ log' = log \cup {Line("Synchronization stopped.", Root)}
  /\ stoppedLines' = stoppedLines + 1
  /\ UNCHANGED <<srcRoot, src, repRoot, rep, changesMade, todo, filesToRemove,
                 srcOrder, hashThrows, cycle, ext, rep0, repRoot0, interval, elapsed,
                 waited>>

\* signalHandler
signalHandler ==
  /\ pc \notin Terminal \cup {"start"}
  /\ keepRunning' = FALSE
  /\ UNCHANGED <<srcRoot, src, repRoot, rep, changesMade, pc, todo,
                 filesToRemove, log, stoppedLines, srcOrder, hashThrows, cycle,
                 ext, rep0, repRoot0, interval, elapsed,
                 waited>>

\* while (keepRunning) ... ; logOperation("Synchronization stopped."); return 0
LoopTop ==
  /\ pc = "loopTop"
  /\ IF keepRunning
     THEN /\ cycle < MaxCycles
          /\ pc' = "validate"
          /\ cycle' = cycle + 1
          /\ log' = {}
          /\ rep0' = rep
          /\ repRoot0' = repRoot
          /\ elapsed' = 0
          /\ waited' = 0
          /\ UNCHANGED stoppedLines
     ELSE /\ pc' = "exit0"
          /\ log' = log \cup {Line("Synchronization stopped.", Root)}
          /\ stoppedLines' = stoppedLines + 1
          /\ UNCHANGED <<cycle, rep0, repRoot0, elapsed, waited>>
  /\ UNCHANGED <<srcRoot, src, repRoot, rep, keepRunning, changesMade, todo,
                 filesToRemove, srcOrder, hashThrows, ext, interval>>

\* if (!isSourceValid(...)) { log; return 1; } at the top of an iteration
Validate ==
  /\ pc = "validate"
  /\ IF isSourceValid # "ok"
     THEN /\ pc' = "exit1"
          /\ log' = log \cup {Line(isSourceValid, Root),
                              Line("Source directory has been deleted or is inaccessible. Exiting...", Root)}
     ELSE /\ pc' = "syncFolders"
          /\ UNCHANGED log
  /\ UNCHANGED <<srcRoot, src, repRoot, rep, keepRunning, changesMade, todo,
                 filesToRemove, stoppedLines, srcOrder, hashThrows, cycle, ext,
                 rep0, repRoot0, interval, elapsed,
                 waited>>

\* syncFolders without the reset of the flag
SyncFoldersBegin_NoReset ==
  /\ pc = "syncFolders"
  /\ pc' = "mirror"
  /\ repRoot' = IF repRoot = "none" THEN "dir" ELSE repRoot
  /\ changesMade' = (changesMade \/ repRoot = "none")
  /\ todo' = IF srcRoot = "dir" THEN Listing(src, srcOrder) ELSE <<>>
  /\ log' = log
       \cup (IF repRoot = "none" THEN {Line("Created replica directory", Root)} ELSE {})
       \cup (IF srcRoot = "dir" THEN {} ELSE {Line("Filesystem error (syncSubdirectories)", Root)})
  /\ UNCHANGED <<srcRoot, src, rep, keepRunning, filesToRemove, stoppedLines,
                 srcOrder, hashThrows, cycle, ext, rep0, repRoot0, interval,
                 elapsed, waited>>

\* syncFolders with the flag reset after the creation of the replica root
SyncFoldersBegin_ResetLast ==
  /\ pc = "syncFolders"
  /\ pc' = "mirror"
  /\ repRoot' = IF repRoot = "none" THEN "dir" ELSE repRoot
  /\ changesMade' = FALSE
  /\ todo' = IF srcRoot = "dir" THEN Listing(src, srcOrder) ELSE <<>>
  /\ log' = log
       \cup (IF repRoot = "none" THEN {Line("Created replica directory", Root)} ELSE {})
       \cup (IF srcRoot = "dir" THEN {} ELSE {Line("Filesystem error (syncSubdirectories)", Root)})
  /\ UNCHANGED <<srcRoot, src, rep, keepRunning, filesToRemove, stoppedLines,
                 srcOrder, hashThrows, cycle, ext, rep0, repRoot0, interval,
                 elapsed, waited>>

\* syncFolders up to the construction of syncSubdirectories' iterator:
\* reset the flag, create the replica root, open the source tree
SyncFoldersBegin ==
  /\ pc = "syncFolders"
  /\ pc' = "mirror"
  /\ LET created == repRoot = "none"
         opened == srcRoot = "dir"
     IN /\ repRoot' = IF created THEN "dir" ELSE repRoot
        /\ changesMade' = created
        /\ todo' = IF opened THEN Listing(src, srcOrder) ELSE <<>>
        /\ log' = log
             \cup (IF created THEN {Line("Created replica directory", Root)} ELSE {})
             \cup (IF opened THEN {} ELSE {Line("Filesystem error (syncSubdirectories)", Root)})
  /\ UNCHANGED <<srcRoot, src, rep, keepRunning, filesToRemove, stoppedLines,
                 srcOrder, hashThrows, cycle, ext, rep0, repRoot0, interval, elapsed,
                 waited>>

\* fs::create_directory(replica / p) succeeds when the parent is a directory
CanCreateDirectory(p) == KindAt(repRoot, rep, Parent(p)) = "dir"

\* one iteration of syncSubdirectories' loop
MirrorStep ==
  /\ pc = "mirror"
  /\ todo # <<>>
  /\ LET p == Head(todo)
     IN \/ /\ KindAt(srcRoot, src, p) = "dir"
           /\ ~Exists(repRoot, rep, p)
           /\ IF CanCreateDirectory(p)
              THEN /\ rep' = [rep EXCEPT ![p] = Dir]
                   /\ log' = log \cup {Line("Created directory", p)}
                   /\ changesMade' = TRUE
                   /\ todo' = Tail(todo)
              ELSE /\ log' = log \cup {Line("Filesystem error (syncSubdirectories)", p)}
                   /\ todo' = <<>>
                   /\ UNCHANGED <<rep, changesMade>>
        \/ /\ ~(KindAt(srcRoot, src, p) = "dir" /\ ~Exists(repRoot, rep, p))
           /\ todo' = Tail(todo)
           /\ UNCHANGED <<rep, log, changesMade>>
        \/ \* the source went away under the iterator: its increment may raise
           /\ srcRoot # "dir"
           /\ log' = log \cup {Line("Filesystem error (syncSubdirectories)", Root)}
           /\ todo' = <<>>
           /\ UNCHANGED <<rep, changesMade>>
  /\ UNCHANGED <<srcRoot, src, repRoot, keepRunning, pc, filesToRemove,
                 stoppedLines, srcOrder, hashThrows, cycle, ext, rep0, repRoot0, interval, elapsed,
                 waited>>

\* syncSubdirectories returns; syncCopy opens the source tree
CopyBegin ==
  /\ pc = "mirror"
  /\ todo = <<>>
  /\ pc' = "copy"
  /\ IF srcRoot = "dir"
     THEN /\ todo' = Listing(src, srcOrder)
          /\ UNCHANGED log
     ELSE /\ todo' = <<>>
          /\ log' = log \cup {Line("Filesystem error (syncCopy)", Root)}
  /\ UNCHANGED <<srcRoot, src, repRoot, rep, keepRunning, changesMade,
                 filesToRemove, stoppedLines, srcOrder, hashThrows, cycle, ext,
                 rep0, repRoot0, interval, elapsed,
                 waited>>

\* computeFileHash: the digest is the content; what is not a regular file
\* reads as empty
computeFileHash(e) == IF e.kind = "file" THEN e.data ELSE 0

\* fs::copy_file(..., overwrite_existing) succeeds when the target's parent is
\* a directory and the target is absent or a regular file
CanCopyFile(p) ==
  /\ KindAt(repRoot, rep, Parent(p)) = "dir"
  /\ KindAt(repRoot, rep, p) \in {"none", "file"}

\* shouldCopy without the hash comparison
shouldCopy_Always(p) == TRUE

\* shouldCopy of syncCopy
shouldCopy(p) ==
  \/ ~Exists(repRoot, rep, p)
  \/ computeFileHash(src[p]) # computeFileHash(rep[p])

\* syncCopy's loop body with the arguments of copy_file swapped
CopyStep_Swapped ==
  /\ pc = "copy"
  /\ todo # <<>>
  /\ LET p == Head(todo)
     IN IF /\ KindAt(srcRoot, src, p) = "file"
           /\ KindAt(repRoot, rep, p) = "file"
           /\ computeFileHash(src[p]) # computeFileHash(rep[p])
        THEN /\ src' = [src EXCEPT ![p] = rep[p]]
             /\ log' = log \cup {Line("Copied file", p)}
             /\ changesMade' = TRUE
        ELSE UNCHANGED <<src, log, changesMade>>
  /\ todo' = Tail(todo)
  /\ UNCHANGED <<srcRoot, repRoot, rep, keepRunning, pc, filesToRemove,
                 stoppedLines, srcOrder, hashThrows, cycle, ext, rep0, repRoot0, interval, elapsed,
                 waited>>

\* one iteration of syncCopy's loop
CopyStep ==
  /\ pc = "copy"
  /\ todo # <<>>
  /\ LET p == Head(todo)
         isFile == KindAt(srcRoot, src, p) = "file"
         hashFails == /\ Exists(repRoot, rep, p)
                      /\ rep[p].kind # "file"
                      /\ hashThrows
     IN \/ /\ isFile
           /\ hashFails
           /\ log' = log \cup {Line("Error (syncCopy)", p)}
           /\ todo' = <<>>
           /\ UNCHANGED <<rep, changesMade>>
        \/ /\ isFile
           /\ ~hashFails
           /\ shouldCopy(p)
           /\ IF CanCopyFile(p)
              THEN /\ rep' = [rep EXCEPT ![p] = src[p]]
                   /\ log' = log \cup {Line("Copied file", p)}
                   /\ changesMade' = TRUE
                   /\ todo' = Tail(todo)
              ELSE /\ log' = log \cup {Line("Filesystem error (syncCopy)", p)}
                   /\ todo' = <<>>
                   /\ UNCHANGED <<rep, changesMade>>
        \/ /\ ~(isFile /\ (hashFails \/ shouldCopy(p)))
           /\ todo' = Tail(todo)
           /\ UNCHANGED <<rep, log, changesMade>>
        \/ /\ srcRoot # "dir"
           /\ log' = log \cup {Line("Filesystem error (syncCopy)", Root)}
           /\ todo' = <<>>
           /\ UNCHANGED <<rep, changesMade>>
  /\ UNCHANGED <<srcRoot, src, repRoot, keepRunning, pc, filesToRemove,
                 stoppedLines, srcOrder, hashThrows, cycle, ext, rep0, repRoot0, interval, elapsed,
                 waited>>

\* syncCopy returns; syncDelete opens the replica tree
DeleteBegin ==
  /\ pc = "copy"
  /\ todo = <<>>
  /\ filesToRemove' = <<>>
  /\ IF repRoot = "dir"
     THEN /\ pc' = "delete"
          /\ \E ord \in NameOrders : todo' = Listing(rep, ord)
          /\ UNCHANGED log
     ELSE /\ pc' = "check"
          /\ todo' = <<>>
          /\ log' = log \cup {Line("Filesystem error (syncDelete)", Root)}
  /\ UNCHANGED <<srcRoot, src, repRoot, rep, keepRunning, changesMade,
                 stoppedLines, srcOrder, hashThrows, cycle, ext, rep0, repRoot0, interval, elapsed,
                 waited>>

\* a staleness test that also prunes an entry whose kind differs from the
\* source's
IsStale_KindMismatch(p) == KindAt(srcRoot, src, p) # rep[p].kind

\* a staleness test that only prunes regular files
IsStale_FilesOnly(p) == ~Exists(srcRoot, src, p) /\ rep[p].kind = "file"

\* !fs::exists(sourcePath) for the replica entry at relative path p
IsStale(p) == ~Exists(srcRoot, src, p)

\* one iteration of syncDelete's first loop
DeleteScanStep ==
  /\ pc = "delete"
  /\ todo # <<>>
  /\ LET p == Head(todo)
     IN filesToRemove' = IF IsStale(p)
                         THEN Append(filesToRemove, p)
                         ELSE filesToRemove
  /\ todo' = Tail(todo)
  /\ UNCHANGED <<srcRoot, src, repRoot, rep, keepRunning, changesMade, pc, log,
                 stoppedLines, srcOrder, hashThrows, cycle, ext, rep0, repRoot0, interval, elapsed,
                 waited>>

\* one iteration of syncDelete's second loop
DeleteApplyStep ==
  /\ pc = "delete"
  /\ todo = <<>>
  /\ filesToRemove # <<>>
  /\ LET p == Head(filesToRemove)
     IN /\ rep' = RemoveAll(rep, p)
        /\ log' = log \cup {Line("Removed", p)}
  /\ changesMade' = TRUE
  /\ filesToRemove' = Tail(filesToRemove)
  /\ UNCHANGED <<srcRoot, src, repRoot, keepRunning, pc, todo, stoppedLines,
                 srcOrder, hashThrows, cycle, ext, rep0, repRoot0, interval, elapsed,
                 waited>>

\* syncDelete and syncFolders return
SyncFoldersEnd ==
  /\ pc = "delete"
  /\ todo = <<>>
  /\ filesToRemove = <<>>
  /\ pc' = "check"
  /\ UNCHANGED <<srcRoot, src, repRoot, rep, keepRunning, changesMade, todo,
                 filesToRemove, log, stoppedLines, srcOrder, hashThrows, cycle,
                 ext, rep0, repRoot0, interval, elapsed,
                 waited>>

\* the completion test without the flag
Completion_CountsOnly ==
  CountFilesAndDirectories(src) = CountFilesAndDirectories(rep)

\* the condition under which checkSyncCompletion logs the completion line
Completion ==
  /\ CountFilesAndDirectories(src) = CountFilesAndDirectories(rep)
  /\ changesMade

\* checkSyncCompletion; recursive_directory_iterator raises on a root that is
\* not a directory and nothing in main catches it
checkSyncCompletion ==
  /\ pc = "check"
  /\ IF srcRoot # "dir" \/ repRoot # "dir"
     THEN /\ pc' = "crashed"
          /\ UNCHANGED <<log, changesMade, elapsed>>
     ELSE /\ pc' = "sleep"
          /\ elapsed' \in 0..MaxElapsed
          /\ IF Completion
             THEN /\ log' = log \cup {Line("Synchronization complete.", Root)}
                  /\ changesMade' = FALSE
             ELSE UNCHANGED <<log, changesMade>>
  /\ UNCHANGED <<srcRoot, src, repRoot, rep, keepRunning, todo, filesToRemove,
                 stoppedLines, srcOrder, hashThrows, cycle, ext, rep0, repRoot0,
                 interval, waited>>

\* a sleep_for that takes the magnitude of a negative duration
sleep_for_Magnitude(d) == IF d < 0 THEN 0 - d ELSE d

\* std::this_thread::sleep_for(d): the time it blocks; a duration that is not
\* positive returns at once
sleep_for(d) == IF d <= 0 THEN 0 ELSE d

\* std::chrono::seconds(interval) - elapsed_seconds
RemainingInterval == interval - elapsed

\* std::this_thread::sleep_for returns
Sleep ==
  /\ pc = "sleep"
  /\ pc' = "loopTop"
  /\ waited' = sleep_for(RemainingInterval)
  /\ UNCHANGED <<srcRoot, src, repRoot, rep, keepRunning, changesMade, todo,
                 filesToRemove, log, stoppedLines, srcOrder, hashThrows, cycle,
                 ext, rep0, repRoot0, interval, elapsed>>

\* environment: the source directory is deleted while the program runs
ExtRemoveSource ==
  /\ pc \notin Terminal \cup {"start"}
  /\ srcRoot = "dir"
  /\ srcRoot' = "none"
  /\ src' = EmptyTree
  /\ ext' = TRUE
  /\ UNCHANGED <<repRoot, rep, keepRunning, changesMade, pc, todo,
                 filesToRemove, log, stoppedLines, srcOrder, hashThrows, cycle,
                 rep0, repRoot0, interval, elapsed,
                 waited>>

\* the steps of the main thread
Main ==
  \/ Start
  \/ LoopTop
  \/ Validate
  \/ SyncFoldersBegin
  \/ MirrorStep
  \/ CopyBegin
  \/ CopyStep
  \/ DeleteBegin
  \/ DeleteScanStep
  \/ DeleteApplyStep
  \/ SyncFoldersEnd
  \/ checkSyncCompletion
  \/ Sleep

Next == Main \/ signalHandler \/ ExtRemoveSource

Spec == Init /\ [][Next]_vars

\* the main thread keeps running while it can take a step
FairSpec == Spec /\ WF_vars(Main)

TypeOK ==
  /\ srcRoot \in {"dir", "none", "file"}
  /\ repRoot \in {"dir", "none", "file"}
  /\ src \in Trees
  /\ rep \in Trees
  /\ interval \in 1..MaxInterval
  /\ elapsed \in 0..MaxElapsed
  /\ waited \in 0..MaxInterval
  /\ pc \in {"start", "loopTop", "validate", "syncFolders", "mirror", "copy",
             "delete", "check", "sleep"} \cup Terminal

\* ------------------------------------------------------------ claim helpers
Logged(m) == \E l \in log : l.msg = m
LoggedAt(m, p) == Line(m, p) \in log
CompleteLine == "Synchronization complete."
CyclePcs == {"syncFolders", "mirror", "copy", "delete", "check"}

\* C1: after one call of syncFolders with no external mutation the replica
\* has exactly the source's relative paths and every source file has a
\* replica counterpart with identical content.  Stated for the initial
\* states the claim names: a source of regular files and directories, and a
\* replica root that is a directory or does not exist.
C1_Convergence ==
  (/\ pc = "check"
   /\ ~ext
   /\ repRoot0 # "file"
   /\ \A p \in Paths : src[p].kind # "other") =>
    /\ repRoot = "dir"
    /\ \A p \in Paths : Exists(repRoot, rep, p) <=> Exists(srcRoot, src, p)
    /\ \A p \in Paths : src[p].kind = "file" => rep[p] = src[p]

\* C2: every entry that was in the replica when the cycle began and whose
\* relative path does not exist in the source is gone when syncFolders has
\* returned.
C2_DeletionCorrectness ==
  (pc = "check" /\ ~ext) =>
    \A p \in Paths :
      (Exists(repRoot0, rep0, p) /\ ~Exists(srcRoot, src, p)) => ~Exists(repRoot, rep, p)

\* a stale directory with a stale child has been pruned
C2_Witness ==
  /\ pc = "check"
  /\ ~ext
  /\ repRoot0 = "dir"
  /\ rep0[<<"a">>].kind = "dir"
  /\ rep0[<<"a", "c">>].kind = "file"
  /\ src[<<"a">>].kind = "none"
  /\ src[<<"b">>].kind = "file"
  /\ rep[<<"a">>].kind = "none"

\* the lines that report a mutation of the replica
MutationLines ==
  {"Created replica directory", "Created directory", "Copied file", "Removed"}

\* C3: from the second cycle on, with no external change, the replica is left
\* as the cycle found it, no create/copy/remove line and no completion line is
\* logged, and the flag is false from its reset to the end of the cycle.
C3_Idempotence ==
  (cycle >= 2 /\ ~ext) =>
    /\ rep = rep0
    /\ repRoot = repRoot0
    /\ \A l \in log : l.msg \notin MutationLines \cup {CompleteLine}
    /\ pc \in {"mirror", "copy", "delete", "check", "sleep", "loopTop", "exit0"}
         => ~changesMade

\* a second cycle has gone through on a replica that mirrors the source
C3_Witness ==
  /\ cycle = 2
  /\ pc = "sleep"
  /\ ~ext
  /\ rep = src
  /\ src[<<"a">>].kind = "dir"
  /\ src[<<"a", "c">>] = File(1)
  /\ src[<<"b">>] = File(0)

\* C4: no step of the program changes the source tree.
C4_SourceNeverModified ==
  [][(Main \/ signalHandler) => UNCHANGED <<srcRoot, src>>]_vars

\* a cycle that copied and removed has finished over an intact source
C4_Witness ==
  /\ pc = "check"
  /\ ~ext
  /\ srcRoot = "dir"
  /\ Logged("Copied file")
  /\ Logged("Removed")
  /\ Logged("Created directory")

\* C5: the process never ends through an uncaught filesystem error.
C5_NeverCrashes == pc # "crashed"

\* C6: when the comparison or copy of one source file has failed, every other
\* source file that can be copied has been copied when syncCopy has returned.
C6_CopyIsolation ==
  (pc \in {"delete", "check"} /\ ~ext) =>
    \A f \in Paths :
      (LoggedAt("Filesystem error (syncCopy)", f) \/ LoggedAt("Error (syncCopy)", f)) =>
        \A p \in Paths \ {f} :
          (/\ src[p].kind = "file"
           /\ KindAt(repRoot, rep, Parent(p)) = "dir"
           /\ rep[p].kind \in {"none", "file"}) => rep[p] = src[p]

SourceErrorLines ==
  {"Error: Source path does not exist.", "Error: Source path is not a directory."}

\* C7: a main-thread step taken at the validation of an iteration with an
\* invalid source logs the source error and exits with status 1 without
\* touching the replica, and nothing runs after exit 1.
C7_SourceRecheck ==
  /\ [][(pc = "validate" /\ srcRoot # "dir" /\ pc' # pc) =>
          /\ pc' = "exit1"
          /\ \E l \in log' : l.msg \in SourceErrorLines
          /\ ~(\E l \in log' : l.msg = CompleteLine)
          /\ UNCHANGED <<repRoot, rep, changesMade>>]_vars
  /\ [][pc # "exit1"]_vars

\* the source went away after a full cycle and the next iteration exited
C7_Witness ==
  /\ pc = "exit1"
  /\ cycle = 2
  /\ ext
  /\ Logged("Error: Source path does not exist.")
  /\ Logged("Source directory has been deleted or is inaccessible. Exiting...")

\* C8: a termination request changes nothing but keepRunning; a running cycle
\* goes on through its phases to the completion check whatever keepRunning
\* is; exit 0 is taken only by the loop-top check, and no cycle starts once
\* that check has seen the request.
C8_CooperativeCancel ==
  /\ [][(keepRunning /\ ~keepRunning') =>
          UNCHANGED <<pc, todo, filesToRemove, repRoot, rep, changesMade, log,
                      stoppedLines, cycle>>]_vars
  /\ [][(pc \in CyclePcs \ {"check"}) => pc' \in CyclePcs]_vars
  /\ [][(pc = "check") => pc' \in {"check", "sleep", "crashed"}]_vars
  /\ [][(pc' = "exit0") => (pc = "loopTop" /\ ~keepRunning)]_vars
  /\ [][(pc = "loopTop" /\ ~keepRunning) =>
          (pc' \in {"loopTop", "exit0"} /\ cycle' = cycle)]_vars

\* a request is pending in the middle of the prune phase of a cycle that has
\* already copied
C8_Witness ==
  /\ pc = "delete"
  /\ ~keepRunning
  /\ filesToRemove # <<>>
  /\ Logged("Copied file")

\* C9: after a termination request the process eventually reaches Stopped
\* (exit 0 or exit 1); at exit 0 "Synchronization stopped." has been logged
\* exactly once; keepRunning never becomes true again.
C9_GracefulStop ==
  /\ (~keepRunning) ~> (pc \in {"exit0", "exit1"})
  /\ [](pc = "exit0" => stoppedLines = 1)
  /\ [][~keepRunning => ~keepRunning']_vars

C11_IntervalAccounting ==
  /\ [][(pc = "sleep" /\ pc' # pc) =>
          /\ pc' = "loopTop"
          /\ cycle' = cycle
          /\ keepRunning' = keepRunning
          /\ elapsed < interval => waited' = interval - elapsed
          /\ elapsed >= interval => waited' = 0]_vars
  /\ [](waited >= 0)

\* a cycle that overran the interval has been followed by a sleep of no time
\* and then by the next iteration
C11_Witness ==
  /\ pc = "loopTop"
  /\ cycle = 1
  /\ interval = 2
  /\ elapsed = 3
  /\ waited = 0
  /\ keepRunning

\* the lines of message m that a step adds to the log
NewLines(m) == {l \in log' \ log : l.msg = m}

C13_FailedCycleIsNoOp ==
  (/\ pc \in {"copy", "delete", "check", "sleep", "crashed"}
   /\ LoggedAt("Filesystem error (syncSubdirectories)", Root)
   /\ ~Logged("Created directory")
   /\ ~Logged("Copied file")) => rep = rep0

\* C14: whenever syncSubdirectories is about to create replica/p (p is a
\* directory in the source and nothing exists at replica/p), the parent of
\* replica/p exists in the replica as a directory, for every source tree and
\* every initial replica tree whose root is a directory or missing.
C14_ParentBeforeChild ==
  (/\ pc = "mirror"
   /\ todo # <<>>
   /\ ~ext
   /\ repRoot0 # "file"
   /\ KindAt(srcRoot, src, Head(todo)) = "dir"
   /\ ~Exists(repRoot, rep, Head(todo))) =>
     KindAt(repRoot, rep, Parent(Head(todo))) = "dir"

\* C15: for every regular file p of the source whose replica path was free
\* or held a regular file when the cycle began, syncCopy has copied p (and
\* logged "Copied file") exactly when nothing was at the replica path or the
\* replica file's content differed; a file with an equal counterpart is left
\* alone.
C15_CopyDecision ==
  (/\ pc \in {"delete", "check"}
   /\ ~ext
   /\ repRoot0 # "file") =>
    \A p \in Paths :
      (/\ src[p].kind = "file"
       /\ KindAt(repRoot0, rep0, p) \in {"none", "file"}) =>
        /\ LoggedAt("Copied file", p) <=>
             (\/ KindAt(repRoot0, rep0, p) = "none"
              \/ rep0[p].data # src[p].data)
        /\ LoggedAt("Copied file", p) => rep[p] = src[p]
        /\ ~LoggedAt("Copied file", p) => rep[p] = rep0[p]

\* the logged lines that report neither a mutation nor the completion
ErrorLines == {l \in log : l.msg \notin MutationLines \cup {CompleteLine}}

\* C16: while syncDelete is enumerating the replica nothing is removed; each
\* removal happens after the enumeration, takes the listed entry with all
\* that is below it and nothing else; the removal of a listed entry that is
\* already gone changes nothing, logs no error and is followed by the
\* remaining removals, so syncDelete returns only with the list used up.
C16_CollectThenApply ==
  /\ [][(pc = "delete" /\ todo # <<>>) => (rep' = rep /\ repRoot' = repRoot)]_vars
  /\ [][(pc = "delete" /\ filesToRemove' # filesToRemove /\ todo = <<>>) =>
          /\ filesToRemove # <<>>
          /\ filesToRemove' = Tail(filesToRemove)
          /\ todo' = <<>>
          /\ pc' = "delete"
          /\ \A q \in Paths :
               rep'[q] = IF Under(Head(filesToRemove), q) THEN None ELSE rep[q]
          /\ ErrorLines' = ErrorLines
          /\ ~Exists(repRoot, rep, Head(filesToRemove)) => rep' = rep]_vars
  /\ [][(pc = "delete" /\ pc' # pc) => filesToRemove = <<>>]_vars
  /\ [](pc = "delete" =>
          \A i \in 1..Len(filesToRemove) : \A j \in 1..Len(filesToRemove) :
            (i # j /\ Under(filesToRemove[i], filesToRemove[j])) => i < j)

\* a directory and its child were both listed; the child's removal found it
\* gone, and the removal of a further entry is still to come
C16_Witness ==
  /\ pc = "delete"
  /\ todo = <<>>
  /\ ~ext
  /\ filesToRemove = << <<"b">> >>
  /\ LoggedAt("Removed", <<"a">>)
  /\ LoggedAt("Removed", <<"a", "c">>)
  /\ rep[<<"b">>].kind # "none"

\* C17: from the reset of the flag to the completion check of every cycle,
\* with no external change, changesMade is true exactly when the replica
\* differs from what it was when the cycle began: it is false until the
\* first mutation of the cycle, true after it, and a mutation of an earlier
\* cycle does not show in it.
C17_FlagAccuracy ==
  (pc \in {"mirror", "copy", "delete", "check"} /\ ~ext) =>
    (changesMade <=> (rep # rep0 \/ repRoot # repRoot0))

\* the second cycle has reached its completion check with the flag false
\* on a replica that holds a copied file and is still short of the source
C17_Witness ==
  /\ pc = "check"
  /\ cycle = 2
  /\ ~ext
  /\ ~changesMade
  /\ rep = rep0
  /\ CountFilesAndDirectories(src) # CountFilesAndDirectories(rep)
  /\ \E p \in Paths : src[p].kind = "file" /\ rep[p] = src[p]

\* C18: whenever a cycle with no external change has logged the completion
\* line, the replica has exactly the source's relative paths, each of the
\* same kind, and every file has its source's content.  Stated for a source
\* of regular files and directories.
C18_CompletionSound ==
  (/\ Logged(CompleteLine)
   /\ ~ext
   /\ \A p \in Paths : src[p].kind # "other") =>
    /\ repRoot = "dir"
    /\ \A p \in Paths : rep[p].kind = src[p].kind
    /\ \A p \in Paths : src[p].kind = "file" => rep[p].data = src[p].data

\* C19: in a cycle without external change no step of syncDelete removes or
\* alters the replica root or a replica entry whose relative path exists in
\* the source, whatever the kinds of the two; an entry whose kind conflicts
\* with its source counterpart is still there when syncDelete has returned.
C19_PruneOnlyStale ==
  /\ [][(pc = "delete" /\ ~ext) =>
          /\ repRoot' = repRoot
          /\ \A p \in Paths : Exists(srcRoot, src, p) => rep'[p] = rep[p]]_vars
  /\ []((pc = "check" /\ ~ext /\ repRoot0 = "dir") =>
          \A p \in Paths :
            (Exists(srcRoot, src, p) /\ rep0[p].kind \notin {"none", src[p].kind})
              => rep[p] = rep0[p])

\* a prune that removed a stale entry has left a conflicting entry in place
C19_Witness ==
  /\ pc = "check"
  /\ ~ext
  /\ src[<<"a">>].kind = "file"
  /\ rep[<<"a">>].kind = "dir"
  /\ rep0[<<"a", "c">>].kind = "file"
  /\ LoggedAt("Removed", <<"a", "c">>)
  /\ LoggedAt("Removed", <<"b">>)

=============================================================================
